---- MODULE Spec2Model ----
\* A model of scripts/mcp_config.py: the package-spec classifier
\* (detect_package_type) and the configuration store
\* (create_or_update_config, as called from main).
EXTENDS Integers, Sequences, FiniteSets, TLC

\* ---------------------------------------------------------------------
\* Bounds
\* ---------------------------------------------------------------------
\* number of runs of main() made one after the other
MaxCalls == 2
\* length of the free tail appended to a prefix of a classified spec
MaxTail == 2

\* ---------------------------------------------------------------------
\* Strings. A Python str is a sequence of one-character strings.
\* ---------------------------------------------------------------------
GITP == <<"g", "i", "t", "+">>
HTTPS == <<"h", "t", "t", "p", "s", ":", "/", "/">>
HTTP == <<"h", "t", "t", "p", ":", "/", "/">>
GITHUB == <<"g", "i", "t", "h", "u", "b", ".", "c", "o", "m">>
GITLAB == <<"g", "i", "t", "l", "a", "b", ".", "c", "o", "m">>
BITBUCKET == <<"b", "i", "t", "b", "u", "c", "k", "e", "t", ".", "o", "r", "g">>
BLOB == <<"/", "b", "l", "o", "b", "/">>
RAW == <<"/", "r", "a", "w", "/">>
UR == <<"/", "u", "/", "r">>
FPY == <<"m", "/", "s", ".", "p", "y">>

\* str.startswith(prefix)
StartsWith(s, prefix) ==
    /\ Len(s) >= Len(prefix)
    /\ SubSeq(s, 1, Len(prefix)) = prefix

\* "sub in s" for two strings
Contains(s, sub) ==
    \E i \in 1..(Len(s) - Len(sub) + 1) : SubSeq(s, i, i + Len(sub) - 1) = sub

\* detect_package_type(package_spec)
detect_package_type_url_first(package_spec) ==
    IF Contains(package_spec, BLOB) \/ Contains(package_spec, RAW) THEN "github_raw"
    ELSE IF StartsWith(package_spec, GITP) THEN "git"
    ELSE IF \/ StartsWith(package_spec, <<"/">>)
            \/ StartsWith(package_spec, <<".", "/">>)
            \/ StartsWith(package_spec, <<".", ".", "/">>)
            \/ StartsWith(package_spec, <<"-", "e">>)
    THEN "local"
    ELSE "pypi"

detect_package_type_no_editable(package_spec) ==
    IF StartsWith(package_spec, GITP) THEN "git"
    ELSE IF \/ StartsWith(package_spec, <<"/">>)
            \/ StartsWith(package_spec, <<".", "/">>)
            \/ StartsWith(package_spec, <<".", ".", "/">>)
    THEN "local"
    ELSE "pypi"

detect_package_type(package_spec) ==
    IF StartsWith(package_spec, GITP) THEN "git"
    ELSE IF \/ StartsWith(package_spec, <<"/">>)
            \/ StartsWith(package_spec, <<".", "/">>)
            \/ StartsWith(package_spec, <<".", ".", "/">>)
            \/ StartsWith(package_spec, <<"-", "e">>)
    THEN "local"
    ELSE "pypi"

\* ---------------------------------------------------------------------
\* The classifier on its own: a spec string is drawn, then classified.
\* ---------------------------------------------------------------------
VARIABLES
    cl_spec,      \* the package spec given
    cl_kind,      \* what detect_package_type returned
    nm_resource,  \* the local file given to extract_server_name
    nm_result,    \* what extract_server_name returned and printed
    exe_result    \* what detect_executable_name returned

cl_vars == <<cl_spec, cl_kind, nm_resource, nm_result, exe_result>>

TailChars == {"/", "#", "a", "-"}

RECURSIVE SeqsUpTo(_, _)
SeqsUpTo(S, n) ==
    IF n = 0 THEN {<<>>}
    ELSE LET shorter == SeqsUpTo(S, n - 1)
         IN shorter \cup {Append(t, c) : t \in shorter, c \in S}

Tails == SeqsUpTo(TailChars, MaxTail)

Prefixes ==
    { <<>>, GITP, <<"g", "i", "t">>, <<"/">>, <<".", "/">>, <<".", ".", "/">>,
      <<"-", "e">>, <<".">>, <<"-">>, <<"a">>,
      GITP \o HTTPS \o GITHUB \o UR \o BLOB,
      GITP \o HTTPS \o GITLAB \o UR \o RAW,
      HTTPS \o GITHUB \o UR \o BLOB \o FPY,
      HTTP \o GITHUB \o UR \o RAW \o FPY,
      HTTPS \o GITLAB \o UR \o <<"/", "-">> \o RAW \o FPY,
      HTTPS \o BITBUCKET \o UR \o RAW \o FPY,
      HTTPS \o GITHUB \o UR }

ClassifyInputs == {p \o t : p \in Prefixes, t \in Tails}

NotClassified == "unclassified"

\* ---------------------------------------------------------------------
\* extract_server_name
\* ---------------------------------------------------------------------
\* the filepath argument: None, a path that does not exist, a file that is
\* not UTF-8 text, or a file with text c
NoResource == [k |-> "none"]
MissingResource == [k |-> "missing"]
UndecodableResource == [k |-> "undecodable"]
TextResource(c) == [k |-> "text", c |-> c]

NotDone == [done |-> FALSE]

\* the positions of s that hold a character of the set S
Positions(s, S) == {i \in 1..Len(s) : s[i] \in S}

Min(S) == CHOOSE i \in S : \A j \in S : i <= j
Max(S) == CHOOSE i \in S : \A j \in S : i >= j

\* s.split(c)[0] and re.split('[S]', s)[0]: s up to the first character of S
FirstField(s, S) ==
    IF Positions(s, S) = {} THEN s ELSE SubSeq(s, 1, Min(Positions(s, S)) - 1)

\* s.replace(a, b) for single characters
Replace(s, a, b) == [i \in 1..Len(s) |-> IF s[i] = a THEN b ELSE s[i]]

FASTMCP == <<"F", "a", "s", "t", "M", "C", "P", "(">>
Quotes == {"\"", "'"}

\* re.search(r'FastMCP\(["\']([^"\']*)["\']', content): the leftmost place
\* where FastMCP( and a quote are followed, after characters that are not
\* quotes, by a quote; group 1 is what lies between the two quotes
FastMcpSearch(content) ==
    LET starts == {i \in 1..Len(content) :
                     /\ i + 9 <= Len(content)
                     /\ SubSeq(content, i, i + 7) = FASTMCP
                     /\ content[i + 8] \in Quotes
                     /\ \E j \in (i + 9)..Len(content) : content[j] \in Quotes}
    IN IF starts = {} THEN [found |-> FALSE, group |-> <<>>]
       ELSE LET i == Min(starts)
                j == Min({j \in (i + 9)..Len(content) : content[j] \in Quotes})
            IN [found |-> TRUE, group |-> SubSeq(content, i + 9, j - 1)]

DOTGIT == <<".", "g", "i", "t">>

GitRest_no_fragment(r) ==
    \/ r = <<>>
    \/ r = DOTGIT

\* what may follow group 1 of the git pattern: (?:\.git)?(?:#.*)?$
GitRest(r) ==
    \/ r = <<>>
    \/ r = DOTGIT
    \/ StartsWith(r, <<"#">>)
    \/ StartsWith(r, DOTGIT \o <<"#">>)

\* re.search(r'/([^/]+?)(?:\.git)?(?:#.*)?$', package_spec): the leftmost
\* "/" from which the pattern matches, group 1 as short as it can be
GitSearch(s) ==
    LET Fits(i, n) ==
            /\ i + n <= Len(s)
            /\ \A j \in (i + 1)..(i + n) : s[j] # "/"
            /\ GitRest(SubSeq(s, i + n + 1, Len(s)))
        starts == {i \in 1..Len(s) : s[i] = "/" /\ \E n \in 1..Len(s) : Fits(i, n)}
    IN IF starts = {} THEN [found |-> FALSE, group |-> <<>>]
       ELSE LET i == Min(starts)
                n == Min({m \in 1..Len(s) : Fits(i, m)})
            IN [found |-> TRUE, group |-> SubSeq(s, i + 1, i + n)]

\* the parts of a path: s split at "/", empty and "." parts dropped
RECURSIVE PathParts(_)
PathParts(s) ==
    IF s = <<>> THEN <<>>
    ELSE LET part == FirstField(s, {"/"})
             rest == IF Len(part) = Len(s) THEN <<>>
                     ELSE PathParts(SubSeq(s, Len(part) + 2, Len(s)))
         IN IF part = <<>> \/ part = <<".">> THEN rest ELSE <<part>> \o rest

\* Path(s).stem: the last part, up to its last dot when that dot is neither
\* its first nor its last character
PathStem(s) ==
    LET parts == PathParts(s)
        name == IF parts = <<>> THEN <<>> ELSE parts[Len(parts)]
        dots == Positions(name, {"."})
    IN IF dots # {} /\ 1 < Max(dots) /\ Max(dots) < Len(name)
       THEN SubSeq(name, 1, Max(dots) - 1)
       ELSE name

OpChars == {">", "<", "=", "!", "~"}

SpecBasedName_keeping_extras(package_spec) ==
    IF detect_package_type(package_spec) = "pypi"
    THEN Replace(Replace(FirstField(package_spec, OpChars), "-", "_"), "_", "-")
    ELSE IF StartsWith(package_spec, GITP)
    THEN IF GitSearch(package_spec).found
         THEN GitSearch(package_spec).group
         ELSE package_spec
    ELSE IF Contains(package_spec, <<"/">>)
    THEN PathStem(package_spec)
    ELSE package_spec

\* lines 46-60: the name derived from the spec alone
SpecBasedName(package_spec) ==
    IF detect_package_type(package_spec) = "pypi"
    THEN Replace(Replace(FirstField(FirstField(package_spec, {"["}), OpChars), "-", "_"),
                 "_", "-")
    ELSE IF StartsWith(package_spec, GITP)
    THEN IF GitSearch(package_spec).found
         THEN GitSearch(package_spec).group
         ELSE package_spec
    ELSE IF Contains(package_spec, <<"/">>)
    THEN PathStem(package_spec)
    ELSE package_spec

Returned(name, warned) ==
    [done |-> TRUE, raised |-> FALSE, name |-> name, warned |-> warned]
Raised == [done |-> TRUE, raised |-> TRUE, name |-> <<>>, warned |-> FALSE]

extract_server_name_local_only(package_spec, filepath) ==
    IF /\ filepath.k = "text"
       /\ detect_package_type(package_spec) = "local"
       /\ FastMcpSearch(filepath.c).found
    THEN Returned(FastMcpSearch(filepath.c).group, FALSE)
    ELSE Returned(SpecBasedName(package_spec), filepath.k = "undecodable")

extract_server_name_uncaught(package_spec, filepath) ==
    IF filepath.k = "undecodable" THEN Raised
    ELSE IF filepath.k = "text" /\ FastMcpSearch(filepath.c).found
    THEN Returned(FastMcpSearch(filepath.c).group, FALSE)
    ELSE Returned(SpecBasedName(package_spec), FALSE)

\* extract_server_name(package_spec, filepath)
extract_server_name(package_spec, filepath) ==
    IF filepath.k = "text" /\ FastMcpSearch(filepath.c).found
    THEN Returned(FastMcpSearch(filepath.c).group, FALSE)
    ELSE Returned(SpecBasedName(package_spec), filepath.k = "undecodable")

\* ---------------------------------------------------------------------
\* JSON. A parsed value is a Python object; a file holds text.
\*   Python:  [t |-> "dict", keys |-> insertion order, val |-> key -> value]
\*            [t |-> "list", items |-> <<...>>], [t |-> "str", s |-> ...],
\*            [t |-> "null"]
\*   text:    [t |-> "obj", m |-> << [k |-> key, v |-> text], ... >>]
\*            (members as written, duplicates possible),
\*            [t |-> "arr", items |-> <<...>>], and the scalars as above
\* ---------------------------------------------------------------------
PStr(s) == [t |-> "str", s |-> s]
PNull == [t |-> "null"]
PList(items) == [t |-> "list", items |-> items]
EmptyDict == [t |-> "dict", keys |-> <<>>, val |-> [k \in {} |-> PNull]]

\* key in d
DictHas(d, k) == k \in DOMAIN d.val

\* d[k] = v
DictSet(d, k, v) ==
    [t |-> "dict",
     keys |-> IF DictHas(d, k) THEN d.keys ELSE Append(d.keys, k),
     val |-> [x \in (DOMAIN d.val) \cup {k} |-> IF x = k THEN v ELSE d.val[x]]]

\* the keys of the members of a JSON object text, first occurrences in order
RECURSIVE MemberKeys(_)
MemberKeys(m) ==
    IF m = <<>> THEN <<>>
    ELSE LET front == MemberKeys(SubSeq(m, 1, Len(m) - 1))
             last == m[Len(m)].k
         IN IF \E i \in 1..Len(front) : front[i] = last
            THEN front ELSE Append(front, last)

\* the value text the last member with key k carries
LastMember(m, k) ==
    LET i == CHOOSE j \in 1..Len(m) :
                 /\ m[j].k = k
                 /\ \A l \in (j + 1)..Len(m) : m[l].k # k
    IN m[i].v

\* json.loads on the text of a JSON value
RECURSIVE loadsV(_)
loadsV(jt) ==
    CASE jt.t = "obj" ->
           LET ks == MemberKeys(jt.m)
           IN [t |-> "dict", keys |-> ks,
               val |-> [k \in {ks[i] : i \in 1..Len(ks)} |-> loadsV(LastMember(jt.m, k))]]
      [] jt.t = "arr" ->
           [t |-> "list", items |-> [i \in 1..Len(jt.items) |-> loadsV(jt.items[i])]]
      [] OTHER -> jt

\* json.dumps of a Python object, as the text of a JSON value
RECURSIVE dumpsV(_)
dumpsV(pv) ==
    CASE pv.t = "dict" ->
           [t |-> "obj",
            m |-> [i \in 1..Len(pv.keys) |-> [k |-> pv.keys[i], v |-> dumpsV(pv.val[pv.keys[i]])]]]
      [] pv.t = "list" ->
           [t |-> "arr", items |-> [i \in 1..Len(pv.items) |-> dumpsV(pv.items[i])]]
      [] OTHER -> pv

\* File contents: no file, zero bytes, a truncated serialization, text that
\* is not JSON, or the text of a JSON value.
NoFile == [k |-> "absent"]
EmptyText == [k |-> "empty"]
PartialText == [k |-> "partial"]
GarbageText == [k |-> "garbage"]
JsonText(v) == [k |-> "json", v |-> v]

\* json.loads(text): a value, or JSONDecodeError
loads_lenient(text) ==
    IF text.k = "json"
    THEN [ok |-> TRUE, value |-> loadsV(text.v)]
    ELSE [ok |-> TRUE, value |-> DictSet(EmptyDict, "mcpServers", EmptyDict)]

loads(text) ==
    IF text.k = "json"
    THEN [ok |-> TRUE, value |-> loadsV(text.v)]
    ELSE [ok |-> FALSE, value |-> PNull]

\* json.dumps(value, indent=2)
dumps(value) == JsonText(dumpsV(value))

\* ---------------------------------------------------------------------
\* Inputs of the configuration store
\* ---------------------------------------------------------------------
ServerNames == {"new-server", "existing-server"}
PackageSpecs == {"pkg", "git+u/r", "./s.py"}
ServerArgLists == {<<>>, <<"--arg1", "value1">>}

\* the characters of a package spec
Chars(package_spec) ==
    CASE package_spec = "pkg" -> <<"p", "k", "g">>
      [] package_spec = "git+u/r" -> GITP \o <<"u", "/", "r">>
      [] package_spec = "./s.py" -> <<".", "/", "s", ".", "p", "y">>
      [] package_spec = "==1" -> <<"=", "=", "1">>

\* get_bootstrap_script_path(): the candidates, in the order they are probed
ScriptDirBootstrap == "<script_dir>/universal-bootstrap.sh"
HomeBootstrap == "~/.mcp/bootstrap/universal-bootstrap.sh"
UsrLocalBootstrap == "/usr/local/bin/universal-bootstrap.sh"
ParentBootstrap == "<script_dir>/../scripts/universal-bootstrap.sh"

\* the sets of bootstrap scripts found installed
BootstrapInstalls == {{}, {UsrLocalBootstrap}, {HomeBootstrap, ParentBootstrap}}

get_bootstrap_script_path(present) ==
    IF ScriptDirBootstrap \in present THEN ScriptDirBootstrap
    ELSE IF HomeBootstrap \in present THEN HomeBootstrap
    ELSE IF UsrLocalBootstrap \in present THEN UsrLocalBootstrap
    ELSE IF ParentBootstrap \in present THEN ParentBootstrap
    ELSE ScriptDirBootstrap

\* the "_metadata" dictionary of lines 122-127
Metadata(package_spec) ==
    DictSet(DictSet(DictSet(DictSet(EmptyDict,
        "package_type", PStr(detect_package_type(Chars(package_spec)))),
        "package_spec", PStr(package_spec)),
        "generated_by", PStr("mcp_config.py")),
        "bootstrap_version", PStr("1.2.0"))

\* the argument list of lines 110-112
BuildArgs(bootstrap_script, package_spec, server_args) ==
    PList(<<PStr(bootstrap_script), PStr(package_spec)>>
          \o [i \in 1..Len(server_args) |-> PStr(server_args[i])])

\* the dictionary literal of lines 115-118
LaunchRecord(bootstrap_script, package_spec, server_args) ==
    DictSet(DictSet(EmptyDict,
        "command", PStr("bash")),
        "args", BuildArgs(bootstrap_script, package_spec, server_args))

\* Lines 102-127 on the parsed document: the document with the entry written,
\* or the TypeError Python raises when the document, or its "mcpServers"
\* value, is not a dictionary.
upsert_dropping(config_data, server_name, package_spec, server_args, present) ==
    IF config_data.t # "dict" THEN [ok |-> FALSE, data |-> config_data]
    ELSE
    LET record == LaunchRecord(get_bootstrap_script_path(present), package_spec, server_args)
        servers == DictSet(EmptyDict, server_name,
                           DictSet(record, "_metadata", Metadata(package_spec)))
    IN [ok |-> TRUE, data |-> DictSet(config_data, "mcpServers", servers)]

upsert(config_data, server_name, package_spec, server_args, present) ==
    IF config_data.t # "dict" THEN [ok |-> FALSE, data |-> config_data]
    ELSE
    LET ensured == IF ~DictHas(config_data, "mcpServers")
                   THEN DictSet(config_data, "mcpServers", EmptyDict)
                   ELSE config_data
        servers == ensured.val["mcpServers"]
    IN IF servers.t # "dict" THEN [ok |-> FALSE, data |-> ensured]
       ELSE
       LET record == LaunchRecord(get_bootstrap_script_path(present), package_spec, server_args)
           assigned == DictSet(servers, server_name, record)
           entry == assigned.val[server_name]
           withMeta == IF ~DictHas(assigned, server_name) \/ ~DictHas(entry, "_metadata")
                       THEN DictSet(assigned, server_name,
                                    DictSet(entry, "_metadata", Metadata(package_spec)))
                       ELSE assigned
       IN [ok |-> TRUE, data |-> DictSet(ensured, "mcpServers", withMeta)]

\* ---------------------------------------------------------------------
\* Configuration files found on disk before the first run
\* ---------------------------------------------------------------------
Obj(members) == [t |-> "obj", m |-> members]
Arr(items) == [t |-> "arr", items |-> items]
Mem(key, value) == [k |-> key, v |-> value]

OldEntryText ==
    Obj(<<Mem("command", PStr("bash")), Mem("args", Arr(<<PStr("old-command")>>))>>)
OldEntryWithMetaText ==
    Obj(<<Mem("command", PStr("node")),
          Mem("_metadata", Obj(<<Mem("package_spec", PStr("old"))>>))>>)

ExistingConfig ==
    JsonText(Obj(<<Mem("mcpServers", Obj(<<Mem("existing-server", OldEntryText)>>))>>))
MissingKeyConfig ==
    JsonText(Obj(<<Mem("other_key", PStr("value"))>>))
DuplicateKeyConfig ==
    JsonText(Obj(<<Mem("mcpServers", Obj(<<Mem("other-server", OldEntryText),
                                           Mem("existing-server", OldEntryWithMetaText),
                                           Mem("other-server", OldEntryWithMetaText)>>)),
                   Mem("theme", PStr("dark"))>>))
ListConfig == JsonText(Arr(<<PStr("mcpServers")>>))
BadServersConfig == JsonText(Obj(<<Mem("mcpServers", PNull)>>))

InitialFiles ==
    {NoFile, ExistingConfig, MissingKeyConfig, DuplicateKeyConfig, ListConfig,
     BadServersConfig, GarbageText, EmptyText}

\* ---------------------------------------------------------------------
\* State
\* ---------------------------------------------------------------------
Procs == {1, 2}

VARIABLES
    dirExists,    \* config_file.parent exists
    file,         \* content of config_file
    installed,    \* the bootstrap scripts present on this machine
    pc,           \* where each process is
    runs,         \* which run of main() each process is in
    call,         \* server_name, package_spec, server_args of the call
    raw,          \* the text read at line 100
    config_data,  \* the parsed document
    tmp,          \* content of the temporary file of the call
    orphan,       \* the descriptor opened at line 97 is of a replaced file
    result,       \* what create_or_update_config returned
    exc,          \* the exception caught at line 138
    fault,        \* the step at which the environment failed
    pre,          \* file and directory as they were when the call began
    prev,         \* the previous run's call and the entry it left, if it succeeded
    out,          \* lines printed
    exitCode      \* exit status of main(), -1 while it runs

VARIABLES
    argv,         \* sys.argv[1:] of the run
    parse_result, \* what parse_args returned
    local_files,  \* what Path(package_spec) and its fallbacks hold
    derived,      \* main() has entered the name derivation of lines 210-235
    at_start      \* file and directory as they were when main() began

cli_vars == <<argv, parse_result, local_files, derived, at_start>>

store_vars == <<dirExists, file, installed, pc, runs, call, raw, config_data, tmp,
                orphan, result, exc, fault, pre, prev, out, exitCode>>
vars == <<store_vars, cl_vars, cli_vars>>

NoCall == [server_name |-> "", package_spec |-> "", server_args |-> <<>>]
NoPre == [file |-> NoFile, dir |-> FALSE]
NoPrev == [server_name |-> "", package_spec |-> "", entry |-> PNull]

IOSteps == {"exists", "mkdir", "seed_open", "seed_write", "read", "tmp_create", "dump", "rename"}

\* the locals of a process that is not inside a run
IdleLocals ==
    /\ call = [p \in Procs |-> NoCall]
    /\ raw = [p \in Procs |-> NoFile]
    /\ config_data = [p \in Procs |-> PNull]
    /\ tmp = [p \in Procs |-> NoFile]
    /\ orphan = [p \in Procs |-> FALSE]
    /\ result = [p \in Procs |-> "None"]
    /\ exc = [p \in Procs |-> "none"]
    /\ fault = [p \in Procs |-> "none"]
    /\ pre = [p \in Procs |-> NoPre]
    /\ prev = [p \in Procs |-> NoPrev]
    /\ out = [p \in Procs |-> <<>>]
    /\ exitCode = [p \in Procs |-> -1]

\* the places main() looks for a local file, lines 213-221; Path(".") /
\* package_spec is the file Path(package_spec) names
LocalPlaces == {"spec", "src/mcp_masterclass", "src"}

NotParsed == [status |-> "none"]
NoLocalFiles == [place \in LocalPlaces |-> MissingResource]

\* the command line front end has not run
IdleCli ==
    /\ argv = <<>>
    /\ parse_result = NotParsed
    /\ local_files = NoLocalFiles
    /\ derived = FALSE
    /\ at_start = NoPre

\* one user runs the tool, MaxCalls times in a row
Init ==
    /\ file \in InitialFiles
    /\ dirExists \in (IF file = NoFile THEN BOOLEAN ELSE {TRUE})
    /\ installed \in BootstrapInstalls
    /\ pc = [p \in Procs |-> IF p = 1 THEN "main" ELSE "off"]
    /\ runs = [p \in Procs |-> 1]
    /\ IdleLocals
    /\ IdleCli
    /\ cl_spec = <<>>
    /\ cl_kind = NotClassified
    /\ nm_resource = NoResource
    /\ nm_result = NotDone
    /\ exe_result = NotDone

\* ---------------------------------------------------------------------
\* main(), lines 237-256, and create_or_update_config, one step per
\* file-system operation
\* ---------------------------------------------------------------------
Goto(p, label) == pc' = [pc EXCEPT ![p] = label]

\* lines 237-245: the bootstrap warning, then the call
CallWith(p, server_name, package_spec, server_args) ==
    /\ call' = [call EXCEPT ![p] = [server_name |-> server_name,
                                     package_spec |-> package_spec,
                                     server_args |-> server_args]]
    /\ out' = [out EXCEPT ![p] = out[p] \o
                 IF get_bootstrap_script_path(installed) \in installed
                 THEN <<>> ELSE <<[kind |-> "warning", cause |-> "bootstrap"]>>]
    /\ pre' = [pre EXCEPT ![p] = [file |-> file, dir |-> dirExists]]
    /\ Goto(p, "exists")
    /\ UNCHANGED <<dirExists, file, installed, runs, raw, config_data, tmp, orphan,
                   result, exc, fault, prev, exitCode, cl_vars, cli_vars>>

\* main() from line 237 on, for any name, spec and arguments it may have got
Call(p) ==
    /\ pc[p] = "main"
    /\ \E server_name \in ServerNames, package_spec \in PackageSpecs,
          server_args \in ServerArgLists :
          CallWith(p, server_name, package_spec, server_args)

\* line 94
Exists(p) ==
    /\ pc[p] = "exists"
    /\ Goto(p, IF file = NoFile THEN "mkdir" ELSE "read")
    /\ UNCHANGED <<dirExists, file, installed, runs, call, raw, config_data, tmp,
                   orphan, result, exc, fault, pre, prev, out, exitCode, cl_vars, cli_vars>>

\* line 96
Mkdir(p) ==
    /\ pc[p] = "mkdir"
    /\ dirExists' = TRUE
    /\ Goto(p, "seed_open")
    /\ UNCHANGED <<file, installed, runs, call, raw, config_data, tmp, orphan,
                   result, exc, fault, pre, prev, out, exitCode, cl_vars, cli_vars>>

\* line 97, write_text: open(mode="w") creates or truncates the file
SeedOpen(p) ==
    /\ pc[p] = "seed_open"
    /\ file' = EmptyText
    /\ orphan' = [orphan EXCEPT ![p] = FALSE]
    /\ Goto(p, "seed_write")
    /\ UNCHANGED <<dirExists, installed, runs, call, raw, config_data, tmp,
                   result, exc, fault, pre, prev, out, exitCode, cl_vars, cli_vars>>

\* line 97, write_text: the write of the default document and the close
SeedWrite(p) ==
    /\ pc[p] = "seed_write"
    /\ file' = IF orphan[p] THEN file
               ELSE dumps(DictSet(EmptyDict, "mcpServers", EmptyDict))
    /\ Goto(p, "read")
    /\ UNCHANGED <<dirExists, installed, runs, call, raw, config_data, tmp, orphan,
                   result, exc, fault, pre, prev, out, exitCode, cl_vars, cli_vars>>

\* line 100, read_text
Read(p) ==
    /\ pc[p] = "read"
    /\ IF file = NoFile
       THEN /\ exc' = [exc EXCEPT ![p] = "FileNotFoundError"]
            /\ Goto(p, "except")
            /\ UNCHANGED raw
       ELSE /\ raw' = [raw EXCEPT ![p] = file]
            /\ Goto(p, "parse")
            /\ UNCHANGED exc
    /\ UNCHANGED <<dirExists, file, installed, runs, call, config_data, tmp, orphan,
                   result, fault, pre, prev, out, exitCode, cl_vars, cli_vars>>

\* line 100, json.loads
Parse(p) ==
    /\ pc[p] = "parse"
    /\ LET parsed == loads(raw[p])
       IN IF parsed.ok
          THEN /\ config_data' = [config_data EXCEPT ![p] = parsed.value]
               /\ Goto(p, "upsert")
               /\ UNCHANGED exc
          ELSE /\ exc' = [exc EXCEPT ![p] = "JSONDecodeError"]
               /\ Goto(p, "except")
               /\ UNCHANGED config_data
    /\ UNCHANGED <<dirExists, file, installed, runs, call, raw, tmp, orphan,
                   result, fault, pre, prev, out, exitCode, cl_vars, cli_vars>>

\* lines 102-127, in memory
Upsert(p) ==
    /\ pc[p] = "upsert"
    /\ LET u == upsert(config_data[p], call[p].server_name, call[p].package_spec,
                       call[p].server_args, installed)
       IN /\ config_data' = [config_data EXCEPT ![p] = u.data]
          /\ IF u.ok
             THEN Goto(p, "tmp_create") /\ UNCHANGED exc
             ELSE Goto(p, "except") /\ exc' = [exc EXCEPT ![p] = "TypeError"]
    /\ UNCHANGED <<dirExists, file, installed, runs, call, raw, tmp, orphan,
                   result, fault, pre, prev, out, exitCode, cl_vars, cli_vars>>

\* line 130, NamedTemporaryFile(dir=config_file.parent, delete=False)
TmpCreate(p) ==
    /\ pc[p] = "tmp_create"
    /\ dirExists
    /\ tmp' = [tmp EXCEPT ![p] = EmptyText]
    /\ Goto(p, "dump")
    /\ UNCHANGED <<dirExists, file, installed, runs, call, raw, config_data, orphan,
                   result, exc, fault, pre, prev, out, exitCode, cl_vars, cli_vars>>

\* lines 131-132, json.dump into the temporary file and its close
Dump(p) ==
    /\ pc[p] = "dump"
    /\ tmp' = [tmp EXCEPT ![p] = dumps(config_data[p])]
    /\ Goto(p, "rename")
    /\ UNCHANGED <<dirExists, file, installed, runs, call, raw, config_data, orphan,
                   result, exc, fault, pre, prev, out, exitCode, cl_vars, cli_vars>>

Rename_not_replacing(p) ==
    /\ pc[p] = "rename"
    /\ tmp' = [tmp EXCEPT ![p] = NoFile]
    /\ result' = [result EXCEPT ![p] = "True"]
    /\ Goto(p, "returned")
    /\ UNCHANGED <<dirExists, file, installed, runs, call, raw, config_data, orphan,
                   exc, fault, pre, prev, out, exitCode, cl_vars, cli_vars>>

\* lines 135-137, Path.replace and the return of True; a descriptor another
\* process holds on the replaced file no longer writes to config_file
Rename(p) ==
    /\ pc[p] = "rename"
    /\ file' = tmp[p]
    /\ tmp' = [tmp EXCEPT ![p] = NoFile]
    /\ orphan' = [q \in Procs |-> IF q # p /\ pc[q] = "seed_write" THEN TRUE ELSE orphan[q]]
    /\ result' = [result EXCEPT ![p] = "True"]
    /\ Goto(p, "returned")
    /\ UNCHANGED <<dirExists, installed, runs, call, raw, config_data,
                   exc, fault, pre, prev, out, exitCode, cl_vars, cli_vars>>

\* any file-system step raises: an interrupted write leaves what was
\* written so far
IOFail(p) ==
    /\ pc[p] \in IOSteps
    /\ exc' = [exc EXCEPT ![p] = "OSError"]
    /\ fault' = [fault EXCEPT ![p] = pc[p]]
    /\ \E partial \in BOOLEAN :
          /\ file' = IF pc[p] = "seed_write" /\ ~orphan[p] /\ partial
                     THEN PartialText ELSE file
          /\ tmp' = [tmp EXCEPT ![p] = IF pc[p] = "dump" /\ partial
                                       THEN PartialText ELSE tmp[p]]
    /\ Goto(p, "except")
    /\ UNCHANGED <<dirExists, installed, runs, call, raw, config_data, orphan,
                   result, pre, prev, out, exitCode, cl_vars, cli_vars>>

\* lines 138-140
Except_returning_true(p) ==
    /\ pc[p] = "except"
    /\ out' = [out EXCEPT ![p] = Append(out[p], [kind |-> "error", cause |-> exc[p]])]
    /\ result' = [result EXCEPT ![p] = "True"]
    /\ Goto(p, "returned")
    /\ UNCHANGED <<dirExists, file, installed, runs, call, raw, config_data, tmp,
                   orphan, exc, fault, pre, prev, exitCode, cl_vars, cli_vars>>

Except(p) ==
    /\ pc[p] = "except"
    /\ out' = [out EXCEPT ![p] = Append(out[p], [kind |-> "error", cause |-> exc[p]])]
    /\ result' = [result EXCEPT ![p] = "False"]
    /\ Goto(p, "returned")
    /\ UNCHANGED <<dirExists, file, installed, runs, call, raw, config_data, tmp,
                   orphan, exc, fault, pre, prev, exitCode, cl_vars, cli_vars>>

\* lines 245-256: the summary and exit status 0, or sys.exit(1)
Return(p) ==
    /\ pc[p] = "returned"
    /\ IF result[p] = "True"
       THEN /\ out' = [out EXCEPT ![p] = Append(out[p], [kind |-> "summary", cause |-> "none"])]
            /\ exitCode' = [exitCode EXCEPT ![p] = 0]
       ELSE /\ exitCode' = [exitCode EXCEPT ![p] = 1]
            /\ UNCHANGED out
    /\ Goto(p, "exited")
    /\ UNCHANGED <<dirExists, file, installed, runs, call, raw, config_data, tmp,
                   orphan, result, exc, fault, pre, prev, cl_vars, cli_vars>>

\* the tool is run again: a fresh process, the files as the last run left them
NextRun(p) ==
    /\ pc[p] = "exited"
    /\ runs[p] < MaxCalls
    /\ runs' = [runs EXCEPT ![p] = runs[p] + 1]
    /\ call' = [call EXCEPT ![p] = NoCall]
    /\ raw' = [raw EXCEPT ![p] = NoFile]
    /\ config_data' = [config_data EXCEPT ![p] = PNull]
    /\ tmp' = [tmp EXCEPT ![p] = NoFile]
    /\ orphan' = [orphan EXCEPT ![p] = FALSE]
    /\ result' = [result EXCEPT ![p] = "None"]
    /\ exc' = [exc EXCEPT ![p] = "none"]
    /\ fault' = [fault EXCEPT ![p] = "none"]
    /\ pre' = [pre EXCEPT ![p] = NoPre]
    /\ prev' = [prev EXCEPT ![p] =
                  IF result[p] = "True"
                  THEN [server_name |-> call[p].server_name,
                        package_spec |-> call[p].package_spec,
                        entry |-> config_data[p].val["mcpServers"].val[call[p].server_name]]
                  ELSE NoPrev]
    /\ out' = [out EXCEPT ![p] = <<>>]
    /\ exitCode' = [exitCode EXCEPT ![p] = -1]
    /\ Goto(p, "main")
    /\ UNCHANGED <<dirExists, file, installed, cl_vars, cli_vars>>

Next ==
    \E p \in Procs :
        \/ Call(p)
        \/ Exists(p)
        \/ Mkdir(p)
        \/ SeedOpen(p)
        \/ SeedWrite(p)
        \/ Read(p)
        \/ Parse(p)
        \/ Upsert(p)
        \/ TmpCreate(p)
        \/ Dump(p)
        \/ Rename(p)
        \/ IOFail(p)
        \/ Except(p)
        \/ Return(p)
        \/ NextRun(p)

Spec == Init /\ [][Next]_vars

\* ---------------------------------------------------------------------
\* The classifier on its own
\* ---------------------------------------------------------------------
ClInit ==
    /\ cl_spec \in ClassifyInputs
    /\ cl_kind = NotClassified
    /\ nm_resource = NoResource
    /\ nm_result = NotDone
    /\ exe_result = NotDone
    /\ file = NoFile
    /\ dirExists = FALSE
    /\ installed = {}
    /\ pc = [p \in Procs |-> "off"]
    /\ runs = [p \in Procs |-> 1]
    /\ IdleLocals
    /\ IdleCli

Classify ==
    /\ cl_kind = NotClassified
    /\ cl_kind' = detect_package_type(cl_spec)
    /\ UNCHANGED <<cl_spec, nm_resource, nm_result, exe_result, store_vars, cli_vars>>

ClNext == Classify

SpecClassify == ClInit /\ [][ClNext]_vars

\* ---------------------------------------------------------------------
\* extract_server_name on its own: a spec and a local file are drawn, then
\* the name is derived.
\* ---------------------------------------------------------------------
PkgNames == {<<"a">>, <<"a", "_", "b">>, <<"m", "y", "-", "s">>, <<"a", "_", "b", "-", "c", "_", "d">>}
Extras == {<<>>, <<"[", "x", "]">>, <<"[", "x", ",", "y", "]">>}
Versions == {<<>>, <<"=", "=", "1">>, <<">", "=", "2", ".", "0">>, <<"~", "=", "1">>,
             <<"<", "2">>, <<"!", "=", "1">>}
PypiInputs == {n \o e \o v : n \in PkgNames \cup {<<>>}, e \in Extras, v \in Versions}

GitBase == GITP \o <<"h", "/", "u", "/">>
GitSegments == {<<"r">>, <<"m", "y", "-", "r">>, <<"r", ".", "g", "i", "t", "x">>}
GitInputs ==
    {GitBase \o g \o d \o t : g \in GitSegments \cup {<<>>}, d \in {<<>>, DOTGIT}, t \in Tails}
    \cup {GITP \o HTTPS \o GITHUB \o UR \o d \o t : d \in {<<>>, DOTGIT}, t \in Tails}
    \cup {GITP \o <<"r">>}

PyFiles == {<<"s", ".", "p", "y">>, <<"m", "y", "_", "s", ".", "p", "y">>}
RawInputs ==
    {scheme \o host \o UR \o seg \o <<"m", "/">> \o f :
        scheme \in {HTTPS, HTTP}, host \in {GITHUB, GITLAB, BITBUCKET},
        seg \in {BLOB, RAW}, f \in PyFiles}

LocalInputs ==
    {m \o f \o t : m \in {<<"/">>, <<".", "/">>, <<".", ".", "/">>, <<"-", "e", " ">>},
                    f \in PyFiles \cup {<<>>}, t \in Tails}

NameInputs == PypiInputs \cup GitInputs \cup RawInputs \cup LocalInputs

ServerNameTexts == {<<>>, <<"m", "y", "-", "s">>, <<"a", " ", "b", "_", "c">>}
TextBefore == {<<>>, <<"m", "=">>, <<"F", "a", "s", "t", "M", "C", "P", " ">>}
TextAfter == {<<")">>, <<")", ";">> \o FASTMCP \o <<"'", "z", "'", ")">>}
FastMcpTexts ==
    {b \o FASTMCP \o <<q>> \o n \o <<q>> \o a :
        b \in TextBefore, q \in Quotes, n \in ServerNameTexts, a \in TextAfter}
OtherTexts == {<<>>, <<"x", "=", "1">>, FASTMCP \o <<"\"", "a">>, FASTMCP \o <<"n", ")">>}

Resources ==
    {NoResource, MissingResource, UndecodableResource}
    \cup {TextResource(c) : c \in FastMcpTexts \cup OtherTexts}

NmInit ==
    /\ cl_spec \in NameInputs
    /\ nm_resource \in Resources
    /\ cl_kind = NotClassified
    /\ nm_result = NotDone
    /\ exe_result = NotDone
    /\ file = NoFile
    /\ dirExists = FALSE
    /\ installed = {}
    /\ pc = [p \in Procs |-> "off"]
    /\ runs = [p \in Procs |-> 1]
    /\ IdleLocals
    /\ IdleCli

ExtractName ==
    /\ ~nm_result.done
    /\ nm_result' = extract_server_name(cl_spec, nm_resource)
    /\ UNCHANGED <<cl_spec, cl_kind, nm_resource, exe_result, store_vars, cli_vars>>

NmNext == ExtractName

SpecName == NmInit /\ [][NmNext]_vars

\* ---------------------------------------------------------------------
\* detect_executable_name, which scripts/mcp_config.py does not define:
\* modelled from its description and from TestDetectExecutableName.
\* ---------------------------------------------------------------------
Letters == {"a", "b", "c", "d", "e", "f", "g", "h", "i", "j", "k", "l", "m",
            "n", "o", "p", "q", "r", "s", "t", "u", "v", "w", "x", "y", "z"}
Digits == {"0", "1", "2", "3", "4", "5", "6", "7", "8", "9"}

\* the longest final segment that counts as a short bare word ("test")
ShortWordMax == 4

\* a disposable suffix: a tag of letters and digits mixed, a number, or a
\* short word
IsDisposableSuffix(seg) ==
    /\ seg # <<>>
    /\ \A i \in 1..Len(seg) : seg[i] \in Letters \cup Digits
    /\ \/ (\E i \in 1..Len(seg) : seg[i] \in Digits)
       \/ Len(seg) <= ShortWordMax

Absent == [done |-> TRUE, absent |-> TRUE, name |-> <<>>]
Present(name) == [done |-> TRUE, absent |-> FALSE, name |-> name]

\* the name with what follows its last hyphen removed, when that is a
\* disposable suffix
StripSuffix_first_hyphen(name) ==
    LET hyphens == Positions(name, {"-"})
    IN IF hyphens = {} \/ Min(hyphens) = 1 THEN Absent
       ELSE IF IsDisposableSuffix(SubSeq(name, Max(hyphens) + 1, Len(name)))
       THEN Present(SubSeq(name, 1, Min(hyphens) - 1))
       ELSE Absent

StripSuffix(name) ==
    LET hyphens == Positions(name, {"-"})
    IN IF hyphens = {} \/ Max(hyphens) = 1 THEN Absent
       ELSE IF IsDisposableSuffix(SubSeq(name, Max(hyphens) + 1, Len(name)))
       THEN Present(SubSeq(name, 1, Max(hyphens) - 1))
       ELSE Absent

detect_executable_name(package_spec) ==
    IF detect_package_type(package_spec) = "pypi"
    THEN IF Contains(package_spec, <<"/">>) THEN Absent
         ELSE StripSuffix(FirstField(package_spec, OpChars))
    ELSE IF StartsWith(package_spec, GITP)
    THEN IF GitSearch(package_spec).found
         THEN StripSuffix(GitSearch(package_spec).group)
         ELSE Absent
    ELSE Absent

ExecBases == {<<"p">>, <<"m", "y", "-", "p">>, <<"t", "-", "m", "c", "p", "-", "s">>}
DisposableSuffixes ==
    {<<"a", "p", "2", "5", "0", "9">>, <<"a", "1">>, <<"1", "2", "3">>, <<"7">>,
     <<"t", "e", "s", "t">>, <<"d", "e", "v">>}
LastingSuffixes ==
    {<<"p", "a", "c", "k", "a", "g", "e">>, <<"s", "e", "r", "v", "e", "r">>,
     <<"f", "i", "l", "e", "_", "1">>}
ExecNames ==
    ExecBases \cup {b \o <<"-">> \o x : b \in ExecBases, x \in DisposableSuffixes \cup LastingSuffixes}
ExecInputs ==
    {n \o v : n \in ExecNames, v \in Versions}
    \cup {GITP \o HTTPS \o GITHUB \o <<"/", "u", "/">> \o n \o d \o f :
             n \in ExecNames, d \in {<<>>, DOTGIT}, f \in {<<>>, <<"#", "m">>}}
    \cup {m \o n : m \in {<<".", "/">>, <<"/">>, <<"-", "e", " ">>}, n \in ExecNames}
    \cup {HTTPS \o GITHUB \o UR \o BLOB \o n \o <<".", "p", "y">> : n \in ExecNames}

ExeInit ==
    /\ cl_spec \in ExecInputs
    /\ cl_kind = NotClassified
    /\ nm_resource = NoResource
    /\ nm_result = NotDone
    /\ exe_result = NotDone
    /\ file = NoFile
    /\ dirExists = FALSE
    /\ installed = {}
    /\ pc = [p \in Procs |-> "off"]
    /\ runs = [p \in Procs |-> 1]
    /\ IdleLocals
    /\ IdleCli

DetectExecutable ==
    /\ ~exe_result.done
    /\ exe_result' = detect_executable_name(cl_spec)
    /\ UNCHANGED <<cl_spec, cl_kind, nm_resource, nm_result, store_vars, cli_vars>>

ExeNext == DetectExecutable

SpecExec == ExeInit /\ [][ExeNext]_vars

\* ---------------------------------------------------------------------
\* The command line: parse_args, lines 169-202, and main, lines 205-245
\* ---------------------------------------------------------------------
\* the most tokens given after the package spec
MaxArgs == 2

NAME_FLAG == <<"-", "-", "n", "a", "m", "e">>
CONFIG_FLAG == <<"-", "-", "c", "o", "n", "f", "i", "g">>
ARGS_FLAG == <<"-", "-", "a", "r", "g", "s">>
HELP_FLAG == <<"-", "-", "h", "e", "l", "p">>
H_FLAG == <<"-", "h">>

\* the default of lines 197-199, as one piece
DefaultConfig == <<"~/Library/Application Support/Claude/claude_desktop_config.json">>

\* s.split(sep)
RECURSIVE Split(_, _)
Split(s, sep) ==
    IF Positions(s, {sep}) = {} THEN <<s>>
    ELSE <<FirstField(s, {sep})>>
         \o Split(SubSeq(s, Min(Positions(s, {sep})) + 1, Len(s)), sep)

\* the string a sequence of characters spells
RECURSIVE Join(_)
Join(s) == IF s = <<>> THEN "" ELSE s[1] \o Join(Tail(s))

\* the locals of parse_args at line 180; an empty server_name or
\* config_file_name stands for None as well, both being false at lines 196
\* and 210
ParseStart(args) ==
    [status |-> "ok", code |-> 0, token |-> <<>>, package_spec |-> args[1],
     named |-> FALSE, server_name |-> <<>>, config_file_name |-> <<>>,
     server_args |-> <<>>]

\* lines 172-174
Usage(code) ==
    [status |-> "usage", code |-> code, token |-> <<>>, package_spec |-> <<>>,
     named |-> FALSE, server_name |-> <<>>, config_file_name |-> <<>>,
     server_args |-> <<>>]

\* the loop of lines 181-194 from index i on, then lines 196-201
RECURSIVE parse_loop(_, _, _)
parse_loop(args, i, acc) ==
    IF i > Len(args)
    THEN [acc EXCEPT !.config_file_name = IF @ = <<>> THEN DefaultConfig ELSE @]
    ELSE IF args[i] = NAME_FLAG /\ i + 1 <= Len(args)
    THEN parse_loop(args, i + 2, [acc EXCEPT !.named = TRUE, !.server_name = args[i + 1]])
    ELSE IF args[i] = CONFIG_FLAG /\ i + 1 <= Len(args)
    THEN parse_loop(args, i + 2, [acc EXCEPT !.config_file_name = args[i + 1]])
    ELSE IF args[i] = ARGS_FLAG /\ i + 1 <= Len(args)
    THEN parse_loop(args, i + 2, [acc EXCEPT !.server_args = Split(args[i + 1], ",")])
    ELSE [acc EXCEPT !.status = "unknown", !.code = 1, !.token = args[i]]

parse_args_tolerant(args) ==
    IF args = <<>> THEN Usage(1)
    ELSE IF \E i \in 1..Len(args) : args[i] \in {HELP_FLAG, H_FLAG} THEN Usage(0)
    ELSE [parse_loop(args, 2, ParseStart(args)) EXCEPT !.status = "ok", !.code = 0]

\* parse_args(), lines 169-202, on sys.argv[1:]
parse_args(args) ==
    IF args = <<>> THEN Usage(1)
    ELSE IF \E i \in 1..Len(args) : args[i] \in {HELP_FLAG, H_FLAG} THEN Usage(0)
    ELSE parse_loop(args, 2, ParseStart(args))

\* lines 213-227: Path(package_spec), else the first of the three base paths
\* under which it exists
FindLocal(files) ==
    IF files["spec"] # MissingResource
    THEN [found |-> TRUE, resource |-> files["spec"]]
    ELSE IF files["src/mcp_masterclass"] # MissingResource
    THEN [found |-> TRUE, resource |-> files["src/mcp_masterclass"]]
    ELSE IF files["src"] # MissingResource
    THEN [found |-> TRUE, resource |-> files["src"]]
    ELSE IF files["spec"] # MissingResource
    THEN [found |-> TRUE, resource |-> files["spec"]]
    ELSE [found |-> FALSE, resource |-> MissingResource]

Resolved(name, warned, entered) ==
    [ok |-> TRUE, name |-> name, warned |-> warned, entered |-> entered, cause |-> "none"]
Unresolved(cause) ==
    [ok |-> FALSE, name |-> <<>>, warned |-> FALSE, entered |-> TRUE, cause |-> cause]

LocalFileNotFound(package_spec) ==
    "Error: Local file " \o Join(package_spec) \o " not found"
CouldNotDetermine == "Error: Could not determine server name. Use --name to specify it."

resolve_name_unchecked(r, files) ==
    IF r.server_name # <<>> THEN Resolved(r.server_name, FALSE, FALSE)
    ELSE LET e == extract_server_name(r.package_spec,
                      IF detect_package_type(r.package_spec) = "local"
                      THEN FindLocal(files).resource ELSE NoResource)
         IN Resolved(e.name, e.warned, TRUE)

\* lines 209-235: the name given, or the name derived, or the error
resolve_name(r, files) ==
    IF r.server_name # <<>> THEN Resolved(r.server_name, FALSE, FALSE)
    ELSE IF detect_package_type(r.package_spec) = "local" /\ ~FindLocal(files).found
    THEN Unresolved(LocalFileNotFound(r.package_spec))
    ELSE LET e == extract_server_name(r.package_spec,
                      IF detect_package_type(r.package_spec) = "local"
                      THEN FindLocal(files).resource ELSE NoResource)
         IN IF e.name = <<>> THEN Unresolved(CouldNotDetermine)
            ELSE Resolved(e.name, e.warned, TRUE)

\* line 207
ParseArgs(p) ==
    /\ pc[p] = "start"
    /\ LET r == parse_args(argv)
       IN /\ parse_result' = r
          /\ IF r.status = "ok"
             THEN Goto(p, "resolve") /\ UNCHANGED <<out, exitCode>>
             ELSE /\ out' = [out EXCEPT ![p] =
                        <<IF r.status = "usage"
                          THEN [kind |-> "usage", cause |-> "none"]
                          ELSE [kind |-> "error",
                                cause |-> "Unknown argument: " \o Join(r.token)]>>]
                  /\ exitCode' = [exitCode EXCEPT ![p] = r.code]
                  /\ Goto(p, "exited")
    /\ UNCHANGED <<dirExists, file, installed, runs, call, raw, config_data, tmp,
                   orphan, result, exc, fault, pre, prev, cl_vars,
                   argv, local_files, derived, at_start>>

\* lines 209-235
ResolveName(p) ==
    /\ pc[p] = "resolve"
    /\ LET n == resolve_name(parse_result, local_files)
       IN /\ derived' = n.entered
          /\ IF n.ok
             THEN /\ parse_result' = [parse_result EXCEPT !.server_name = n.name]
                  /\ out' = [out EXCEPT ![p] =
                        IF n.warned THEN <<[kind |-> "warning", cause |-> "read"]>>
                        ELSE <<>>]
                  /\ Goto(p, "resolved")
                  /\ UNCHANGED exitCode
             ELSE /\ out' = [out EXCEPT ![p] = <<[kind |-> "error", cause |-> n.cause]>>]
                  /\ exitCode' = [exitCode EXCEPT ![p] = 1]
                  /\ Goto(p, "exited")
                  /\ UNCHANGED parse_result
    /\ UNCHANGED <<dirExists, file, installed, runs, call, raw, config_data, tmp,
                   orphan, result, exc, fault, pre, prev, cl_vars,
                   argv, local_files, at_start>>

\* lines 237-245 with what lines 207-235 produced
CallResolved(p) ==
    /\ pc[p] = "resolved"
    /\ CallWith(p, Join(parse_result.server_name), Join(parse_result.package_spec),
                [i \in 1..Len(parse_result.server_args) |->
                    Join(parse_result.server_args[i])])

\* command lines
MainSpecs == {Chars("pkg"), Chars("git+u/r"), Chars("./s.py"), Chars("==1")}
UNKNOWN_FLAG == <<"-", "-", "x">>
Tokens == {NAME_FLAG, CONFIG_FLAG, ARGS_FLAG, HELP_FLAG, H_FLAG, UNKNOWN_FLAG,
           <<"n", "1">>, <<"a", ",", "b">>}
MainArgvs ==
    {<<>>} \cup {<<s>> \o t : s \in MainSpecs,
                              t \in UNION {[1..n -> Tokens] : n \in 0..MaxArgs}}

\* what is found at the places main() looks for a local file
LocalEnvs ==
    {NoLocalFiles,
     [NoLocalFiles EXCEPT !["spec"] = TextResource(FASTMCP \o <<"'", "m", "'", ")">>)],
     [NoLocalFiles EXCEPT !["spec"] = TextResource(FASTMCP \o <<"'", "'", ")">>)],
     [NoLocalFiles EXCEPT !["src"] = TextResource(<<"x", "=", "1">>)],
     [NoLocalFiles EXCEPT !["src/mcp_masterclass"] = UndecodableResource]}

\* one run of the tool from its command line
MainInit ==
    /\ argv \in MainArgvs
    /\ local_files \in LocalEnvs
    /\ file \in {NoFile, ExistingConfig}
    /\ dirExists \in (IF file = NoFile THEN BOOLEAN ELSE {TRUE})
    /\ installed \in {{}, {UsrLocalBootstrap}}
    /\ at_start = [file |-> file, dir |-> dirExists]
    /\ parse_result = NotParsed
    /\ derived = FALSE
    /\ pc = [p \in Procs |-> IF p = 1 THEN "start" ELSE "off"]
    /\ runs = [p \in Procs |-> 1]
    /\ IdleLocals
    /\ cl_spec = <<>>
    /\ cl_kind = NotClassified
    /\ nm_resource = NoResource
    /\ nm_result = NotDone
    /\ exe_result = NotDone

MainNext ==
    \E p \in Procs :
        \/ ParseArgs(p)
        \/ ResolveName(p)
        \/ CallResolved(p)
        \/ Exists(p)
        \/ Mkdir(p)
        \/ SeedOpen(p)
        \/ SeedWrite(p)
        \/ Read(p)
        \/ Parse(p)
        \/ Upsert(p)
        \/ TmpCreate(p)
        \/ Dump(p)
        \/ Rename(p)
        \/ IOFail(p)
        \/ Except(p)
        \/ Return(p)

SpecMain == MainInit /\ [][MainNext]_vars

\* ---------------------------------------------------------------------
\* Two invocations of create_or_update_config on one configuration path
\* ---------------------------------------------------------------------
RaceInit ==
    /\ file \in {NoFile, ExistingConfig}
    /\ dirExists \in (IF file = NoFile THEN BOOLEAN ELSE {TRUE})
    /\ installed = {UsrLocalBootstrap}
    /\ pc = [p \in Procs |-> "main"]
    /\ runs = [p \in Procs |-> 1]
    /\ IdleLocals
    /\ IdleCli
    /\ cl_spec = <<>>
    /\ cl_kind = NotClassified
    /\ nm_resource = NoResource
    /\ nm_result = NotDone
    /\ exe_result = NotDone

\* main() from line 237 on: each invocation registers its own package under
\* either name
RaceCall(p) ==
    /\ pc[p] = "main"
    /\ \E server_name \in ServerNames :
          CallWith(p, server_name, IF p = 1 THEN "pkg" ELSE "git+u/r", <<>>)

RaceNext ==
    \E p \in Procs :
        \/ RaceCall(p)
        \/ Exists(p)
        \/ Mkdir(p)
        \/ SeedOpen(p)
        \/ SeedWrite(p)
        \/ Read(p)
        \/ Parse(p)
        \/ Upsert(p)
        \/ TmpCreate(p)
        \/ Dump(p)
        \/ Rename(p)
        \/ IOFail(p)
        \/ Except(p)
        \/ Return(p)

SpecRace == RaceInit /\ [][RaceNext]_vars

\* ---------------------------------------------------------------------
\* Properties
\* ---------------------------------------------------------------------
\* the server mapping a file's text holds ({} when there is none)
ServersOf(text) ==
    LET parsed == loads(text)
    IN IF /\ parsed.ok
          /\ parsed.value.t = "dict"
          /\ DictHas(parsed.value, "mcpServers")
          /\ parsed.value.val["mcpServers"].t = "dict"
       THEN parsed.value.val["mcpServers"]
       ELSE EmptyDict

Succeeded(p) == pc[p] = "returned" /\ result[p] = "True"

\* the file parsed as a JSON object whose "mcpServers" is absent or an object
IsConfigObject(text) ==
    LET parsed == loads(text)
    IN /\ parsed.ok
       /\ parsed.value.t = "dict"
       /\ DictHas(parsed.value, "mcpServers") => parsed.value.val["mcpServers"].t = "dict"

\* the entry under the call's name is the record built from the call
HoldsNewEntry(p) ==
    LET servers == ServersOf(file)
        name == call[p].server_name
    IN /\ DictHas(servers, name)
       /\ servers.val[name].t = "dict"
       /\ DOMAIN servers.val[name].val = {"command", "args", "_metadata"}
       /\ servers.val[name].val["command"] = PStr("bash")
       /\ servers.val[name].val["args"].t = "list"
       /\ servers.val[name].val["args"].items =
              <<PStr(get_bootstrap_script_path(installed)), PStr(call[p].package_spec)>>
              \o [i \in 1..Len(call[p].server_args) |-> PStr(call[p].server_args[i])]
       /\ servers.val[name].val["_metadata"].val["package_spec"] = PStr(call[p].package_spec)

\* C1: after a successful create_or_update_config, every entry of the server
\* mapping under a key other than server_name has the keys and values it had
\* before the call, and no other key was added or removed.
C1_OtherEntriesKept ==
    \A p \in Procs :
        Succeeded(p) =>
            LET old == ServersOf(pre[p].file)
                new == ServersOf(file)
                name == call[p].server_name
            IN /\ (DOMAIN new.val) \ {name} = (DOMAIN old.val) \ {name}
               /\ \A k \in (DOMAIN old.val) \ {name} : new.val[k] = old.val[k]

C1_Witness ==
    \E p \in Procs :
        /\ Succeeded(p)
        /\ \E k \in DOMAIN ServersOf(pre[p].file).val : k # call[p].server_name
        /\ call[p].server_name \in DOMAIN ServersOf(pre[p].file).val

\* C2: after two successive successful upserts under the same server name
\* with different package specs, the entry's metadata is still the metadata
\* the first upsert left.
C2_MetadataOfFirstUpsertKept ==
    \A p \in Procs :
        ( /\ Succeeded(p)
          /\ prev[p].server_name = call[p].server_name
          /\ prev[p].package_spec # call[p].package_spec )
        => ServersOf(file).val[call[p].server_name].val["_metadata"]
               = prev[p].entry.val["_metadata"]

\* C3: when create_or_update_config has returned, whatever step failed, the
\* destination file is as it was before the call (absent included) or holds
\* the complete new document.
C3_PriorOrNewState ==
    \A p \in Procs :
        pc[p] = "returned" =>
            \/ file = pre[p].file
            \/ /\ config_data[p].t = "dict"
               /\ file = dumps(config_data[p])
               /\ HoldsNewEntry(p)

\* C4: when the configuration file does not exist, loading yields the seed
\* document and writes nothing: until the final persist, the file and its
\* directory are as they were.
C4_LoadTouchesNothing ==
    \A p \in Procs :
        (pre[p].file = NoFile /\ pc[p] \in {"read", "parse", "upsert"})
        => /\ file = NoFile
           /\ dirExists = pre[p].dir
           /\ pc[p] = "upsert" => config_data[p] = DictSet(EmptyDict, "mcpServers", EmptyDict)

\* C5 as stated: for every file whose content parses as JSON, whatever its
\* top-level shape, the call (no file-system step failing) succeeds and the
\* file then holds server_name mapped to the new launch record.
C5_AnyJsonSucceeds ==
    \A p \in Procs :
        (pc[p] = "returned" /\ fault[p] = "none" /\ loads(pre[p].file).ok)
        => result[p] = "True" /\ HoldsNewEntry(p)

\* C5, amended: for every file whose content parses as a JSON object whose
\* "mcpServers" is absent or an object, the call (no file-system step
\* failing) succeeds and the file then holds server_name mapped to the new
\* launch record; for JSON of any other shape it returns False and the file
\* is unchanged.
C5_JsonObjectSucceeds ==
    \A p \in Procs :
        (pc[p] = "returned" /\ fault[p] = "none" /\ loads(pre[p].file).ok)
        => IF IsConfigObject(pre[p].file)
           THEN result[p] = "True" /\ HoldsNewEntry(p)
           ELSE result[p] = "False" /\ file = pre[p].file

C5_Witness ==
    \E p \in Procs :
        /\ pc[p] = "returned"
        /\ fault[p] = "none"
        /\ pre[p].file = MissingKeyConfig
        /\ result[p] = "True"
        /\ call[p].server_args # <<>>

\* C6: when the existing file's content is not valid JSON, the call returns
\* False after printing an error and the file's content is what it was.
C6_InvalidJsonLeftAlone ==
    \A p \in Procs :
        (pc[p] = "returned" /\ pre[p].file \in {GarbageText, EmptyText, PartialText})
        => /\ result[p] = "False"
           /\ file = pre[p].file
           /\ \E i \in 1..Len(out[p]) : out[p][i].kind = "error"

C6_Witness ==
    \E p \in Procs :
        /\ pc[p] = "returned"
        /\ pre[p].file = GarbageText
        /\ exc[p] = "JSONDecodeError"

\* C7: a failure creating, writing or renaming the configuration is caught:
\* the call returns False with an error line naming the cause, and main
\* exits with status 1 without the success summary.
PersistSteps == {"mkdir", "seed_open", "seed_write", "tmp_create", "dump", "rename"}

C7_PersistFailureReported ==
    \A p \in Procs :
        fault[p] \in PersistSteps =>
            /\ pc[p] \in {"except", "returned", "exited"}
            /\ pc[p] \in {"returned", "exited"} =>
                  /\ result[p] = "False"
                  /\ \E i \in 1..Len(out[p]) :
                        out[p][i] = [kind |-> "error", cause |-> exc[p]]
            /\ pc[p] = "exited" =>
                  /\ exitCode[p] = 1
                  /\ \A i \in 1..Len(out[p]) : out[p][i].kind # "summary"

C7_Witness ==
    \E p \in Procs : pc[p] = "exited" /\ fault[p] = "rename" /\ exitCode[p] = 1

\* C8: every launch record written has launcher "bash" and an argument list
\* of exactly two elements, the first of them "-c".
C8_BashDashC ==
    \A p \in Procs :
        Succeeded(p) =>
            LET entry == ServersOf(file).val[call[p].server_name]
            IN /\ entry.val["command"] = PStr("bash")
               /\ Len(entry.val["args"].items) = 2
               /\ entry.val["args"].items[1] = PStr("-c")

\* C9: every spec that begins with "git+" is classified "git", whatever
\* follows the prefix.
C9_GitPrefixIsGit ==
    (cl_kind # NotClassified /\ StartsWith(cl_spec, GITP)) => cl_kind = "git"

C9_Witness ==
    /\ cl_kind = "git"
    /\ Contains(cl_spec, BLOB)
    /\ Contains(cl_spec, <<"#">>)

\* an http(s) URL on github.com, gitlab.com or bitbucket.org whose path has
\* a blob or raw segment
IsHostedFileUrl(s) ==
    /\ \E scheme \in {HTTPS, HTTP}, host \in {GITHUB, GITLAB, BITBUCKET} :
          StartsWith(s, scheme \o host \o <<"/">>)
    /\ Contains(s, BLOB) \/ Contains(s, RAW)

\* C10: every http(s) URL on a known code-hosting domain whose path has a
\* blob or raw segment, not beginning with "git+", is classified
\* "github_raw".
C10_HostedUrlIsRaw ==
    (cl_kind # NotClassified /\ IsHostedFileUrl(cl_spec) /\ ~StartsWith(cl_spec, GITP))
    => cl_kind = "github_raw"

\* C11: a spec that matches neither the "git+" rule nor the hosted-URL rule
\* is classified "local" exactly when it begins with "/", "./", "../" or
\* "-e", and "pypi" otherwise, the empty string included.
C11_LocalOrPypi ==
    (cl_kind # NotClassified /\ ~StartsWith(cl_spec, GITP) /\ ~IsHostedFileUrl(cl_spec))
    => cl_kind = IF \E marker \in {<<"/">>, <<".", "/">>, <<".", ".", "/">>, <<"-", "e">>} :
                       StartsWith(cl_spec, marker)
                 THEN "local" ELSE "pypi"

C11_Witness ==
    /\ cl_kind = "local"
    /\ StartsWith(cl_spec, <<"-", "e">>)

\* C12: given a readable file whose text has FastMCP("<name>") or
\* FastMCP('<name>'), extract_server_name returns <name> as written there,
\* whatever the spec.
C12_FastMcpNameReturned ==
    nm_result.done =>
        \A b \in TextBefore, q \in Quotes, n \in ServerNameTexts, a \in TextAfter :
            nm_resource = TextResource(b \o FASTMCP \o <<q>> \o n \o <<q>> \o a)
            => /\ ~nm_result.raised
               /\ nm_result.name = n

C12_Witness ==
    /\ nm_result.done
    /\ nm_resource.k = "text"
    /\ StartsWith(cl_spec, GITP)
    /\ nm_result.name = <<"a", " ", "b", "_", "c">>

C14_BarePackageName ==
    (nm_result.done /\ nm_resource = NoResource) =>
        \A n \in PkgNames, e \in Extras, v \in Versions :
            cl_spec = n \o e \o v
            => nm_result.name = [i \in 1..Len(n) |-> IF n[i] = "_" THEN "-" ELSE n[i]]

C14_Witness ==
    /\ nm_result.done
    /\ nm_resource = NoResource
    /\ cl_spec = <<"a", "_", "b", "-", "c", "_", "d", "[", "x", ",", "y", "]", ">", "=", "2", ".", "0">>
    /\ nm_result.name = <<"a", "-", "b", "-", "c", "-", "d">>

\* the final path segment of a URL: the text before the first "#", from
\* after its last "/", without a trailing ".git"
FinalSegment(s) ==
    LET url == IF \E i \in 1..Len(s) : s[i] = "#"
               THEN SubSeq(s, 1, (CHOOSE i \in 1..Len(s) :
                                     s[i] = "#" /\ \A j \in 1..(i - 1) : s[j] # "#") - 1)
               ELSE s
        cut == IF \E i \in 1..Len(url) : url[i] = "/"
               THEN CHOOSE i \in 1..Len(url) :
                       url[i] = "/" /\ \A j \in (i + 1)..Len(url) : url[j] # "/"
               ELSE 0
        seg == SubSeq(url, cut + 1, Len(url))
    IN IF Len(seg) >= 4 /\ SubSeq(seg, Len(seg) - 3, Len(seg)) = DOTGIT
       THEN SubSeq(seg, 1, Len(seg) - 4)
       ELSE seg

\* C15 as stated: for every "git+" spec extract_server_name returns the
\* final path segment of the URL, without a trailing ".git" and without the
\* "#fragment".
C15_GitFinalSegment ==
    (nm_result.done /\ nm_resource = NoResource /\ StartsWith(cl_spec, GITP))
    => nm_result.name = FinalSegment(cl_spec)

\* C15, amended: for every "git+" spec whose URL, the "#fragment" set aside,
\* has a final path segment that is not empty once a trailing ".git" is
\* removed, extract_server_name returns that segment without the ".git",
\* also when the fragment contains "/" and when there is no ".git".
C15_GitNonEmptyFinalSegment ==
    ( /\ nm_result.done
      /\ nm_resource = NoResource
      /\ StartsWith(cl_spec, GITP)
      /\ FinalSegment(cl_spec) # <<>> )
    => nm_result.name = FinalSegment(cl_spec)

C15_Witness ==
    /\ nm_result.done
    /\ nm_resource = NoResource
    /\ cl_spec = GitBase \o <<"m", "y", "-", "r", "#", "/">>
    /\ nm_result.name = <<"m", "y", "-", "r">>

\* C16: for a hosted-file URL that ends in a .py file name,
\* extract_server_name returns the file name without ".py", its underscores
\* turned into hyphens.
C16_RawFileName ==
    (nm_result.done /\ nm_resource = NoResource) =>
        \A f \in PyFiles :
            ( /\ IsHostedFileUrl(cl_spec)
              /\ Len(cl_spec) > Len(f)
              /\ SubSeq(cl_spec, Len(cl_spec) - Len(f), Len(cl_spec)) = <<"/">> \o f )
            => nm_result.name =
                   [i \in 1..(Len(f) - 3) |-> IF f[i] = "_" THEN "-" ELSE f[i]]

\* C17: for a non-empty spec and no local file, extract_server_name returns
\* a non-empty name.
C17_NameNeverEmpty ==
    (nm_result.done /\ nm_resource = NoResource /\ cl_spec # <<>>)
    => nm_result.name # <<>>

Parsed(p) == pc[p] \notin {"off", "start"} /\ parse_args(argv).status = "ok"

\* no --name was given and lines 210-235 find no name: the spec is local
\* and no file is found, or the derived name is empty
NameUndeterminable ==
    /\ ~parse_args(argv).named
    /\ IF detect_package_type(argv[1]) = "local"
       THEN \/ ~FindLocal(local_files).found
            \/ extract_server_name(argv[1], FindLocal(local_files).resource).name = <<>>
       ELSE extract_server_name(argv[1], NoResource).name = <<>>

NameErrors(package_spec) == {LocalFileNotFound(package_spec), CouldNotDetermine}

\* C19: in every run of main() that parsed its command line, was given no
\* --name and can determine no server name, the configuration file and its
\* directory stay as they were when the run began, create_or_update_config is
\* never entered, and the run ends with an error line and exit status 1.
C19_NameFailureBeforeWrite ==
    \A p \in Procs :
        (Parsed(p) /\ NameUndeterminable) =>
            /\ pc[p] \in {"resolve", "exited"}
            /\ file = at_start.file
            /\ dirExists = at_start.dir
            /\ pre[p] = NoPre
            /\ pc[p] = "exited" =>
                  /\ exitCode[p] = 1
                  /\ \E c \in NameErrors(argv[1]) : out[p] = <<[kind |-> "error", cause |-> c]>>

C19_Witness ==
    \E p \in Procs :
        /\ Parsed(p)
        /\ NameUndeterminable
        /\ pc[p] = "exited"
        /\ out[p] = <<[kind |-> "error", cause |-> CouldNotDetermine]>>

\* the first index from i on at which a left-to-right reading of the options
\* meets a token that is neither --help or -h nor one of --name, --config
\* and --args followed by a value; 0 if there is none
ValueFlags == {NAME_FLAG, CONFIG_FLAG, ARGS_FLAG}
RECURSIVE FirstRejected(_, _)
FirstRejected(args, i) ==
    IF i > Len(args) THEN 0
    ELSE IF args[i] \in {HELP_FLAG, H_FLAG} THEN FirstRejected(args, i + 1)
    ELSE IF args[i] \in ValueFlags /\ i + 1 <= Len(args) THEN FirstRejected(args, i + 2)
    ELSE i

\* the run ended in parse_args with the error naming the token, exit status
\* 1, and neither the name derivation nor the configuration touched
RejectedNaming(p, token) ==
    /\ pc[p] = "exited"
    /\ exitCode[p] = 1
    /\ out[p] = <<[kind |-> "error", cause |-> "Unknown argument: " \o Join(token)]>>
    /\ ~derived
    /\ pre[p] = NoPre
    /\ file = at_start.file
    /\ dirExists = at_start.dir

C21_ReadsCompleteDocument ==
    /\ \A p \in Procs : pc[p] = "parse" => raw[p].k = "json"
    /\ (\A p \in Procs : pc[p] \in {"returned", "exited"} /\ result[p] = "True") =>
           \E p \in Procs : file = dumps(config_data[p])

\* C22: once create_or_update_config has returned, True or False, the
\* temporary file the call created at line 130 is no longer there: it was
\* renamed onto the destination or removed.
C22_NoTempFileLeft ==
    \A p \in Procs : pc[p] \in {"returned", "exited"} => tmp[p] = NoFile
====
